---- MODULE Spec2Model ----
(***************************************************************************)
(* A model of src/src/app.py (Army Pubs FastMCP server):                   *)
(*   - parse_search_results, as the loop over the anchors of a page;       *)
(*   - extract_document_text's format detection;                           *)
(*   - extract_pdf_text / extract_epub_text, the latter step by step with  *)
(*     its temporary file in a file system shared by all invocations;      *)
(*   - get_document_text_from_url and get_publication.                     *)
(*                                                                         *)
(* Python str values are sequences of one-character strings, bytes values  *)
(* are sequences of integers 0..255. Python's None is the value None.      *)
(***************************************************************************)
EXTENDS Integers, Sequences, FiniteSets, TLC

VARIABLES
    pc,               \* pc[p]: where invocation p stands
    publication_url,  \* get_publication's argument
    file_format,      \* the format hint handed down (filetype / file_format)
    url,              \* extract_document_text's url argument
    exc,              \* str(e) of the exception get_document_text_from_url caught
    doc_content,      \* response.content / the extractors' argument
    format_type,      \* extract_document_text's local
    temp_name,        \* temp_file.name of the file the invocation created
    temp_path,        \* extract_epub_text's local temp_path
    book,             \* what epub.read_epub read from temp_path
    ret,              \* what the extractor / extract_document_text returned
    document_text,    \* what get_document_text_from_url returned
    result,           \* what get_publication returned
    fs,               \* the temporary directory: file name -> content
    \* parse_search_results
    ppc,              \* where the call stands
    page,             \* the parsed html_content
    link_i,           \* the loop's position in links (1-based)
    results,          \* the list results
    date_text,        \* the local date_text (Unbound until assigned)
    description,      \* the local description (Unbound until assigned)
    error             \* the exception that left parse_search_results

procVars == <<pc, publication_url, file_format, url, exc, doc_content, format_type,
              temp_name, temp_path, book, ret, document_text, result, fs>>
parseVars == <<ppc, page, link_i, results, date_text, description, error>>
vars == <<procVars, parseVars>>

-----------------------------------------------------------------------------
(* Bounds of the model *)

\* concurrent invocations of extract_epub_text
NumProcs == 2
\* names the temporary directory can hold
NumNames == 3
\* how far around the 1024-byte sniffing window the padded inputs reach
Slack == 1

Procs == 1..NumProcs
Names == 1..NumNames

-----------------------------------------------------------------------------
(* Python values *)

None == <<"None">>
Absent == <<"Absent">>
NoExc == <<"NoExc">>
\* a local variable no assignment has reached yet
Unbound == <<"Unbound">>

Truthy(s) == s # None /\ s # <<>>

Min(a, b) == IF a < b THEN a ELSE b

\* the element of a one-element set; {f(x) : x \in {e}} computes e once
Only(S) == CHOOSE x \in S : TRUE

UpperChars == <<"A","B","C","D","E","F","G","H","I","J","K","L","M","N","O","P","Q","R","S","T","U","V","W","X","Y","Z">>
LowerChars == <<"a","b","c","d","e","f","g","h","i","j","k","l","m","n","o","p","q","r","s","t","u","v","w","x","y","z">>
Digits == {"0","1","2","3","4","5","6","7","8","9"}
Whitespace == {" ", "\n", "\t", "\r"}

IsUpper(c) == \E i \in 1..Len(UpperChars) : UpperChars[i] = c

\* str.lower(), one character
LowerChar(c) ==
    IF IsUpper(c)
    THEN LowerChars[CHOOSE i \in 1..Len(UpperChars) : UpperChars[i] = c]
    ELSE c

\* str.lower()
Lower(s) == [i \in 1..Len(s) |-> LowerChar(s[i])]

\* bytes.lower(): ASCII A..Z only
LowerBytes(b) == [i \in 1..Len(b) |-> IF b[i] \in 65..90 THEN b[i] + 32 ELSE b[i]]

\* s.startswith(p), s.endswith(p), n in s
StartsWith(s, p) == Len(s) >= Len(p) /\ SubSeq(s, 1, Len(p)) = p
EndsWith(s, p) == Len(s) >= Len(p) /\ SubSeq(s, Len(s) - Len(p) + 1, Len(s)) = p
Contains(s, n) == \E i \in 0..(Len(s) - Len(n)) : SubSeq(s, i + 1, i + Len(n)) = n

SetMin(S) == CHOOSE x \in S : \A y \in S : x <= y
SetMax(S) == CHOOSE x \in S : \A y \in S : x >= y

\* s.find(c) and s.rfind(c) for a single character, 1-based, 0 when absent
Positions(s, c) == {i \in 1..Len(s) : s[i] = c}
Find(s, c) == IF Positions(s, c) = {} THEN 0 ELSE SetMin(Positions(s, c))
RFind(s, c) == IF Positions(s, c) = {} THEN 0 ELSE SetMax(Positions(s, c))

\* s[:n]
Prefix(s, n) == SubSeq(s, 1, Min(Len(s), n))

\* str.strip()
Strip(s) ==
    LET solid == {i \in 1..Len(s) : s[i] \notin Whitespace}
    IN  IF solid = {} THEN <<>> ELSE SubSeq(s, SetMin(solid), SetMax(solid))

-----------------------------------------------------------------------------
(* mimetypes.guess_type(url)[0], as extract_document_text calls it *)

\* urllib.parse._splittype: '([^/:]+):(.*)' matched at the start
SplitType(u) ==
    LET colon == Find(u, ":")
        slash == Find(u, "/")
    IN  IF colon > 1 /\ (slash = 0 \/ slash > colon)
        THEN [scheme |-> Lower(SubSeq(u, 1, colon - 1)), rest |-> SubSeq(u, colon + 1, Len(u))]
        ELSE [scheme |-> None, rest |-> u]

\* posixpath.splitext: the extension starts at the last dot of the last path
\* component, leading dots of the component not counted
SplitExt(p) ==
    LET sep == RFind(p, "/")
        dot == RFind(p, ".")
    IN  IF dot > sep /\ \E k \in (sep + 1)..(dot - 1) : p[k] # "."
        THEN [base |-> SubSeq(p, 1, dot - 1), ext |-> SubSeq(p, dot, Len(p))]
        ELSE [base |-> p, ext |-> <<>>]

\* the entries of mimetypes' tables that the modelled URLs can meet
SuffixMapKeys == {<<".","s","v","g","z">>, <<".","t","g","z">>, <<".","t","a","z">>, <<".","t","z">>, <<".","t","b","z","2">>, <<".","t","x","z">>}
SuffixMap(e) ==
    CASE e = <<".","s","v","g","z">> -> <<".","s","v","g",".","g","z">>
      [] e = <<".","t","b","z","2">> -> <<".","t","a","r",".","b","z","2">>
      [] e = <<".","t","x","z">> -> <<".","t","a","r",".","x","z">>
      [] OTHER -> <<".","t","a","r",".","g","z">>
EncodingsMapKeys == {<<".","g","z">>, <<".","Z">>, <<".","b","z","2">>, <<".","x","z">>, <<".","b","r">>}
TypesMapKeys == {<<".","p","d","f">>, <<".","e","p","u","b">>, <<".","t","x","t">>, <<".","h","t","m","l">>, <<".","t","a","r">>, <<".","s","v","g">>}
TypesMap(e) ==
    CASE e = <<".","p","d","f">> -> <<"a","p","p","l","i","c","a","t","i","o","n","/","p","d","f">>
      [] e = <<".","e","p","u","b">> -> <<"a","p","p","l","i","c","a","t","i","o","n","/","e","p","u","b","+","z","i","p">>
      [] e = <<".","t","x","t">> -> <<"t","e","x","t","/","p","l","a","i","n">>
      [] e = <<".","h","t","m","l">> -> <<"t","e","x","t","/","h","t","m","l">>
      [] e = <<".","t","a","r">> -> <<"a","p","p","l","i","c","a","t","i","o","n","/","x","-","t","a","r">>
      [] OTHER -> <<"i","m","a","g","e","/","s","v","g","+","x","m","l">>

RECURSIVE ApplySuffixMap(_)
ApplySuffixMap(be) ==
    IF Lower(be.ext) \in SuffixMapKeys
    THEN ApplySuffixMap(SplitExt(be.base \o SuffixMap(Lower(be.ext))))
    ELSE be

\* the branch of guess_type for a data: URL
DataUrlType(rest) ==
    LET comma == Find(rest, ",")
        semiAll == Find(rest, ";")
        semi == IF semiAll < comma THEN semiAll ELSE 0
        type == IF semi > 0 THEN SubSeq(rest, 1, semi - 1)
                            ELSE SubSeq(rest, 1, comma - 1)
    IN  IF comma = 0 THEN None
        ELSE IF Find(type, "=") > 0 \/ Find(type, "/") = 0
             THEN <<"t","e","x","t","/","p","l","a","i","n">>
             ELSE type

\* the branch of guess_type for every other URL, from splitext's result on
StrippedExt(be1) == IF be1.ext \in EncodingsMapKeys THEN SplitExt(be1.base) ELSE be1
TypeOfExt(ext) == IF ext \in TypesMapKeys THEN TypesMap(ext) ELSE None

GuessTypeOfSplit(st) ==
    IF st.scheme = <<"d","a","t","a">>
    THEN DataUrlType(st.rest)
    ELSE Only({TypeOfExt(Lower(StrippedExt(be1).ext)) :
                  be1 \in {ApplySuffixMap(SplitExt(st.rest))}})

GuessType(u) == Only({GuessTypeOfSplit(st) : st \in {SplitType(u)}})

-----------------------------------------------------------------------------
(* extract_document_text: the format detection *)

\* the width of the sniffing window, doc_content[:1024]
Window == 1024

PDF_MAGIC == <<37,80,68,70>>
PK_MAGIC == <<80,75>>

FormatFromHint(hint) ==
    IF Truthy(hint)
    THEN LET format_lower == Lower(hint)
         IN  IF Contains(format_lower, <<"p","d","f">>) THEN <<"p","d","f">>
             ELSE IF Contains(format_lower, <<"e","p","u","b">>) \/ Contains(format_lower, <<"e","b","o","o","k">>)
                  THEN <<"e","p","u","b">>
                  ELSE None
    ELSE None

FormatFromUrl(u) ==
    IF Truthy(u)
    THEN LET url_lower == Lower(u)
         IN  IF EndsWith(url_lower, <<".","p","d","f">>) THEN <<"p","d","f">>
             ELSE IF EndsWith(url_lower, <<".","e","p","u","b">>) THEN <<"e","p","u","b">>
             ELSE LET mime_type == GuessType(u)
                  IN  IF mime_type = <<"a","p","p","l","i","c","a","t","i","o","n","/","p","d","f">> THEN <<"p","d","f">>
                      ELSE IF mime_type = <<"a","p","p","l","i","c","a","t","i","o","n","/","e","p","u","b","+","z","i","p">> THEN <<"e","p","u","b">>
                      ELSE None
    ELSE None

FormatFromContent(content) ==
    IF StartsWith(content, PDF_MAGIC) THEN <<"p","d","f">>
    ELSE IF StartsWith(content, PK_MAGIC)
            /\ Contains(LowerBytes(Prefix(content, Window)), <<101,112,117,98>>)
         THEN <<"e","p","u","b">>
         ELSE None

\* DetectFormat with the order of lines 245-274 reversed: the content is
\* sniffed before the hint and the URL are looked at
DetectFormatSniffFirst(hint, u, content) ==
    LET f0 == FormatFromContent(content)
        f1 == IF f0 = None THEN FormatFromHint(hint) ELSE f0
    IN  IF f1 = None THEN FormatFromUrl(u) ELSE f1

\* lines 245-274: the three signals in order, each tried only when the signals
\* before it gave no format
DetectFormat(hint, u, content) ==
    LET f1 == FormatFromHint(hint)
        f2 == IF f1 = None THEN FormatFromUrl(u) ELSE f1
    IN  IF f2 = None THEN FormatFromContent(content) ELSE f2

-----------------------------------------------------------------------------
(* The decoding capabilities PyPDF2.PdfReader and epub.read_epub: functions *)
(* of the bytes they are given. The documents the model downloads:          *)

PDF_TWO_PAGES == <<37,80,68,70,45,72,87>>
PDF_NO_PAGES == <<37,80,68,70,45,48>>
PDF_BLANK_PAGE == <<37,80,68,70,45,66>>
PDF_CORRUPT == <<37,80,68,70,45,88>>
EPUB_TWO_CHAPTERS == <<80,75,3,4,101,112,117,98,50>>
EPUB_NO_ITEMS == <<80,75,3,4,101,112,117,98,48>>
EPUB_BAD_ITEM == <<80,75,3,4,101,112,117,98,89>>
EPUB_CORRUPT == <<80,75,3,4,101,112,117,98,88>>
GARBAGE == <<103,97,114,98,97,103,101>>

Documents == {PDF_TWO_PAGES, PDF_NO_PAGES, PDF_BLANK_PAGE, PDF_CORRUPT,
              EPUB_TWO_CHAPTERS, EPUB_NO_ITEMS, EPUB_BAD_ITEM, EPUB_CORRUPT, GARBAGE}

\* PyPDF2.PdfReader(io.BytesIO(doc_content)).pages with each page's
\* extract_text(); ok = FALSE when the reader raises
PdfReader(content) ==
    CASE content = PDF_TWO_PAGES -> [ok |-> TRUE, pages |-> <<<<"H","e","l","l","o">>, <<"W","o","r","l","d">>>>]
      [] content = PDF_NO_PAGES -> [ok |-> TRUE, pages |-> <<>>]
      [] content = PDF_BLANK_PAGE -> [ok |-> TRUE, pages |-> <<<<" ">>>>]
      [] OTHER -> [ok |-> FALSE, pages |-> <<>>]

\* epub.read_epub(path).get_items(): each item with its type, the visible
\* text BeautifulSoup's get_text(separator='\n', strip=True) gives for it, and
\* whether processing it raises; ok = FALSE when read_epub raises
ReadEpub(content) ==
    CASE content = EPUB_TWO_CHAPTERS ->
             [ok |-> TRUE,
              items |-> <<[type |-> "ITEM_DOCUMENT", text |-> <<"C","h","1">>, raises |-> FALSE],
                          [type |-> "ITEM_IMAGE", text |-> <<"p","n","g">>, raises |-> FALSE],
                          [type |-> "ITEM_DOCUMENT", text |-> <<>>, raises |-> FALSE],
                          [type |-> "ITEM_DOCUMENT", text |-> <<"C","h","2">>, raises |-> FALSE]>>]
      [] content = EPUB_NO_ITEMS -> [ok |-> TRUE, items |-> <<>>]
      [] content = EPUB_BAD_ITEM ->
             [ok |-> TRUE,
              items |-> <<[type |-> "ITEM_DOCUMENT", text |-> <<"C","h","1">>, raises |-> FALSE],
                          [type |-> "ITEM_DOCUMENT", text |-> <<>>, raises |-> TRUE]>>]
      [] OTHER -> [ok |-> FALSE, items |-> <<>>]

-----------------------------------------------------------------------------
(* extract_pdf_text *)

\* text = ""; for each page: text += page.extract_text() + "\n"
RECURSIVE PagesText(_)
PagesText(pages) ==
    IF pages = <<>> THEN <<>>
    ELSE Head(pages) \o <<"\n">> \o PagesText(Tail(pages))

ExtractPdfText(content) ==
    LET pdf_reader == PdfReader(content)
    IN  IF pdf_reader.ok THEN Strip(PagesText(pdf_reader.pages)) ELSE None

-----------------------------------------------------------------------------
(* extract_epub_text: the chapter loop *)

\* text_content: the stripped-non-empty texts of the ITEM_DOCUMENT items
RECURSIVE TextContent(_)
TextContent(items) ==
    IF items = <<>> THEN <<>>
    ELSE LET item == Head(items)
         IN  IF item.type = "ITEM_DOCUMENT" /\ Strip(item.text) # <<>>
             THEN <<item.text>> \o TextContent(Tail(items))
             ELSE TextContent(Tail(items))

\* "\n\n".join(text_content)
RECURSIVE JoinChapters(_)
JoinChapters(chapters) ==
    IF chapters = <<>> THEN <<>>
    ELSE IF Len(chapters) = 1 THEN Head(chapters)
    ELSE Head(chapters) \o <<"\n","\n">> \o JoinChapters(Tail(chapters))

\* whether processing some document item raises
ItemsRaise(items) ==
    \E i \in 1..Len(items) : items[i].type = "ITEM_DOCUMENT" /\ items[i].raises

\* the value the try block of extract_epub_text produces from the bytes
\* read_epub found at temp_path (None: an exception reached the outer except)
EpubText(content) ==
    LET b == ReadEpub(content)
    IN  IF b.ok /\ ~ItemsRaise(b.items)
        THEN Strip(JoinChapters(TextContent(b.items)))
        ELSE None

-----------------------------------------------------------------------------
(* get_document_text_from_url / get_publication: constants and helpers *)

CAC_REQUIRED ==
    <<"C","A","C","_","R","E","Q","U","I","R","E","D",":"," ","T","h","i","s"," ","d","o","c","u","m","e","n","t"," ","r","e","q","u","i","r","e","s"," ","C","o","m","m","o","n"," ","A","c","c","e","s","s"," ","C","a","r","d"," ","(","C","A","C",")"," ","a","u","t","h","e","n","t","i","c","a","t","i","o","n">>
FAILED_MESSAGE ==
    <<"F","a","i","l","e","d"," ","t","o"," ","e","x","t","r","a","c","t"," ","t","e","x","t"," ","f","r","o","m"," ","t","h","e"," ","p","u","b","l","i","c","a","t","i","o","n","."," ","I","t"," ","m","a","y"," ","n","o","t"," ","b","e"," ","a"," ","s","u","p","p","o","r","t","e","d"," ","f","o","r","m","a","t"," ","o","r"," ","t","h","e"," ","c","o","n","t","e","n","t"," ","c","o","u","l","d"," ","n","o","t"," ","b","e"," ","r","e","t","r","i","e","v","e","d",".">>

\* the test of line 318 without its two .lower() calls
IsCacErrorCaseSensitive(e) ==
    Contains(e, <<"r","e","d","i","r","e","c","t">>) /\ Contains(e, <<"f","e","d","e","r","a","t","i","o","n",".","e","a","m","s",".","a","r","m","y">>)

\* line 318: the test on str(e)
IsCacError(e) ==
    Contains(Lower(e), <<"r","e","d","i","r","e","c","t">>) /\ Contains(Lower(e), <<"f","e","d","e","r","a","t","i","o","n",".","e","a","m","s",".","a","r","m","y">>)

\* line 330: publication_url.split('.')[-1] if '.' in publication_url else None
FileType(u) ==
    IF Contains(u, <<".">>) THEN SubSeq(u, RFind(u, ".") + 1, Len(u)) ELSE None

\* lines 333-340 without the test of line 333: document_text is returned as
\* it is, None included
PublicationResultUnchecked(text) == text

\* line 333-340: the value get_publication returns for document_text
PublicationResult(text) == IF Truthy(text) THEN text ELSE FAILED_MESSAGE

-----------------------------------------------------------------------------
(* The inputs of the model *)

Urls == {<<"h","t","t","p","s",":","/","/","a","r","m","y","p","u","b","s",".","a","r","m","y",".","m","i","l","/","e","p","u","b","s","/","a",".","p","d","f">>,
         <<"h","t","t","p","s",":","/","/","a","r","m","y","p","u","b","s",".","a","r","m","y",".","m","i","l","/","e","p","u","b","s","/","a",".","e","p","u","b">>,
         <<"h","t","t","p","s",":","/","/","a","r","m","y","p","u","b","s",".","a","r","m","y",".","m","i","l","/","e","p","u","b","s","/","a">>,
         <<"h","t","t","p","s",":","/","/","a","r","m","y",".","m","i","l","/","p","d","f","s","/","a">>,
         <<"h","t","t","p","s",":","/","/","a","r","m","y",".","m","i","l","/","p","u","b","/","a">>,
         <<"h","t","t","p","s",":","/","/","a","r","m","y",".","m","i","l","/","p","u","b","/","a",".","P","D","F">>,
         <<"h","t","t","p","s",":","/","/","a","r","m","y",".","m","i","l","/","p","u","b","/","a",".","b","i","n">>,
         <<"h","t","t","p",":","/","/","l","o","c","a","l","h","o","s","t","/","a">>}

ErrHeads == {<<>>, <<"R","e","d","i","r","e","c","t"," ","r","e","s","p","o","n","s","e"," ","'","3","0","2"," ","F","o","u","n","d","'"," ">>, <<"R","E","D","I","R","E","C","T"," ">>, <<"C","l","i","e","n","t"," ","e","r","r","o","r"," ","'","4","0","4"," ","N","o","t"," ","F","o","u","n","d","'"," ">>}
ErrTails == {<<>>, <<"h","t","t","p","s",":","/","/","f","e","d","e","r","a","t","i","o","n",".","e","a","m","s",".","a","r","m","y",".","m","i","l","/","s","s","o">>, <<"H","T","T","P","S",":","/","/","F","E","D","E","R","A","T","I","O","N",".","E","A","M","S",".","A","R","M","Y",".","M","I","L","/">>,
             <<"h","t","t","p","s",":","/","/","e","x","a","m","p","l","e",".","c","o","m","/">>}
\* str(e) of the exception httpx raises
ErrTexts == {h \o t : h \in ErrHeads, t \in ErrTails}

-----------------------------------------------------------------------------
(* The actions. Invocation p moves through                                  *)
(*   idle -> download -> extract_document_text -> pdf | epub.. ->           *)
(*   extract_ret -> doc_ret -> done                                         *)

\* get_publication, lines 329-331: up to the call of get_document_text_from_url
GetPublication(p, u) ==
    /\ pc[p] = "idle"
    /\ publication_url' = [publication_url EXCEPT ![p] = u]
    /\ file_format' = [file_format EXCEPT ![p] = FileType(u)]
    /\ pc' = [pc EXCEPT ![p] = "download"]
    /\ UNCHANGED <<url, exc, doc_content, format_type, temp_name, temp_path, book,
                   ret, document_text, result, fs>>
    /\ UNCHANGED parseVars

\* lines 306-313: client.get and raise_for_status succeed
DownloadOk(p, content) ==
    /\ pc[p] = "download"
    /\ doc_content' = [doc_content EXCEPT ![p] = content]
    /\ url' = [url EXCEPT ![p] = publication_url[p]]
    /\ pc' = [pc EXCEPT ![p] = "extract_document_text"]
    /\ UNCHANGED <<publication_url, file_format, exc, format_type, temp_name,
                   temp_path, book, ret, document_text, result, fs>>
    /\ UNCHANGED parseVars

\* lines 306-307, 315-320: client.get or raise_for_status raises e
DownloadRaise(p, e) ==
    /\ pc[p] = "download"
    /\ exc' = [exc EXCEPT ![p] = e]
    /\ document_text' = [document_text EXCEPT ![p] =
                            IF IsCacError(e) THEN CAC_REQUIRED ELSE None]
    /\ pc' = [pc EXCEPT ![p] = "doc_ret"]
    /\ UNCHANGED <<publication_url, file_format, url, doc_content, format_type,
                   temp_name, temp_path, book, ret, result, fs>>
    /\ UNCHANGED parseVars

\* lines 279-285: where extract_document_text goes for a format_type
Extractor(f) ==
    IF f = <<"p","d","f">> THEN "pdf" ELSE IF f = <<"e","p","u","b">> THEN "epub" ELSE "extract_ret"

\* extract_document_text, lines 242-285: detect the format and dispatch
\* (an unknown format returns None at once)
ExtractDocumentText(p) ==
    /\ pc[p] = "extract_document_text"
    /\ format_type' = [format_type EXCEPT ![p] =
                          DetectFormat(file_format[p], url[p], doc_content[p])]
    /\ pc' = [pc EXCEPT ![p] = Extractor(format_type'[p])]
    /\ ret' = [ret EXCEPT ![p] = None]
    /\ UNCHANGED <<publication_url, file_format, url, exc, doc_content, temp_name,
                   temp_path, book, document_text, result, fs>>
    /\ UNCHANGED parseVars

\* extract_pdf_text, lines 152-173
ExtractPdf(p) ==
    /\ pc[p] = "pdf"
    /\ ret' = [ret EXCEPT ![p] = ExtractPdfText(doc_content[p])]
    /\ pc' = [pc EXCEPT ![p] = "extract_ret"]
    /\ UNCHANGED <<publication_url, file_format, url, exc, doc_content, format_type,
                   temp_name, temp_path, book, document_text, result, fs>>
    /\ UNCHANGED parseVars

\* the names a temporary file would get without O_EXCL: any name at all
AnyName == Names

\* the names tempfile.NamedTemporaryFile may give: it creates the file with
\* O_EXCL, so never a name that exists
FreeNames == {n \in Names : fs[n] = Absent}

\* line 191: NamedTemporaryFile(suffix='.epub', delete=False) creates an empty file
CreateTemp(p) ==
    /\ pc[p] = "epub"
    /\ \E n \in FreeNames :
          /\ temp_name' = [temp_name EXCEPT ![p] = n]
          /\ fs' = [fs EXCEPT ![n] = <<>>]
    /\ pc' = [pc EXCEPT ![p] = "write"]
    /\ UNCHANGED <<publication_url, file_format, url, exc, doc_content, format_type,
                   temp_path, book, ret, document_text, result>>
    /\ UNCHANGED parseVars

\* line 191 raises (OSError): no file; lines 227-229 return None
CreateTempRaise(p) ==
    /\ pc[p] = "epub"
    /\ ret' = [ret EXCEPT ![p] = None]
    /\ pc' = [pc EXCEPT ![p] = "extract_ret"]
    /\ UNCHANGED <<publication_url, file_format, url, exc, doc_content, format_type,
                   temp_name, temp_path, book, document_text, result, fs>>
    /\ UNCHANGED parseVars

\* lines 192-193 and the end of the with block: the bytes are in the file
WriteOk(p) ==
    /\ pc[p] = "write"
    /\ fs' = [fs EXCEPT ![temp_name[p]] = doc_content[p]]
    /\ temp_path' = [temp_path EXCEPT ![p] = temp_name[p]]
    /\ pc' = [pc EXCEPT ![p] = "read"]
    /\ UNCHANGED <<publication_url, file_format, url, exc, doc_content, format_type,
                   temp_name, book, ret, document_text, result>>
    /\ UNCHANGED parseVars

\* line 192 (or the flush at the end of the with block) raises: the with
\* block closes the file, which delete=False keeps; the exception passes the
\* inner try, which has not begun, to lines 227-229
WriteRaise(p) ==
    /\ pc[p] = "write"
    /\ ret' = [ret EXCEPT ![p] = None]
    /\ pc' = [pc EXCEPT ![p] = "extract_ret"]
    /\ UNCHANGED <<publication_url, file_format, url, exc, doc_content, format_type,
                   temp_name, temp_path, book, document_text, result, fs>>
    /\ UNCHANGED parseVars

\* lines 197-218: read_epub(temp_path) reads what the file holds now, and the
\* chapters are extracted; ret holds the value to return (None when read_epub,
\* a missing file or an item raised) while the finally block runs
ReadAndExtract(p) ==
    /\ pc[p] = "read"
    /\ LET content == fs[temp_path[p]]
       IN  /\ book' = [book EXCEPT ![p] = content]
           /\ ret' = [ret EXCEPT ![p] = IF content = Absent THEN None
                                        ELSE EpubText(content)]
    /\ pc' = [pc EXCEPT ![p] = "unlink"]
    /\ UNCHANGED <<publication_url, file_format, url, exc, doc_content, format_type,
                   temp_name, temp_path, document_text, result, fs>>
    /\ UNCHANGED parseVars

\* lines 220-223: os.unlink(temp_path) removes the file
UnlinkOk(p) ==
    /\ pc[p] = "unlink"
    /\ fs[temp_path[p]] # Absent
    /\ fs' = [fs EXCEPT ![temp_path[p]] = Absent]
    /\ pc' = [pc EXCEPT ![p] = "extract_ret"]
    /\ UNCHANGED <<publication_url, file_format, url, exc, doc_content, format_type,
                   temp_name, temp_path, book, ret, document_text, result>>
    /\ UNCHANGED parseVars

\* lines 222-225: os.unlink raises, and the bare except passes
UnlinkRaise(p) ==
    /\ pc[p] = "unlink"
    /\ pc' = [pc EXCEPT ![p] = "extract_ret"]
    /\ UNCHANGED <<publication_url, file_format, url, exc, doc_content, format_type,
                   temp_name, temp_path, book, ret, document_text, result, fs>>
    /\ UNCHANGED parseVars

\* line 313: get_document_text_from_url returns what extract_document_text returned
DocumentReturn(p) ==
    /\ pc[p] = "extract_ret"
    /\ document_text' = [document_text EXCEPT ![p] = ret[p]]
    /\ pc' = [pc EXCEPT ![p] = "doc_ret"]
    /\ UNCHANGED <<publication_url, file_format, url, exc, doc_content, format_type,
                   temp_name, temp_path, book, ret, result, fs>>
    /\ UNCHANGED parseVars

\* lines 333-340
GetPublicationReturn(p) ==
    /\ pc[p] = "doc_ret"
    /\ result' = [result EXCEPT ![p] = PublicationResult(document_text[p])]
    /\ pc' = [pc EXCEPT ![p] = "done"]
    /\ UNCHANGED <<publication_url, file_format, url, exc, doc_content, format_type,
                   temp_name, temp_path, book, ret, document_text, fs>>
    /\ UNCHANGED parseVars

\* a direct call extract_epub_text(doc_content)
ExtractEpubCall(p, content) ==
    /\ pc[p] = "idle"
    /\ doc_content' = [doc_content EXCEPT ![p] = content]
    /\ pc' = [pc EXCEPT ![p] = "epub"]
    /\ UNCHANGED <<publication_url, file_format, url, exc, format_type, temp_name,
                   temp_path, book, ret, document_text, result, fs>>
    /\ UNCHANGED parseVars

EpubSteps(p) ==
    \/ CreateTemp(p)
    \/ CreateTempRaise(p)
    \/ WriteOk(p)
    \/ WriteRaise(p)
    \/ ReadAndExtract(p)
    \/ UnlinkOk(p)
    \/ UnlinkRaise(p)

-----------------------------------------------------------------------------
(* parse_search_results                                                     *)
(*                                                                          *)
(* The page is what BeautifulSoup gives for html_content: whether the div   *)
(* MainContent_tblContentSearchResults exists, and its <a> elements in      *)
(* document order. An anchor is a record                                    *)
(*   href    the attribute (None: the anchor has none)                      *)
(*   text    link.get_text(strip=True)                                      *)
(*   span    a <span> right after the anchor: present, markup (str of the   *)
(*           element), text                                                 *)
(*   td, tr  whether a <td> encloses the anchor, and a <tr> that <td>       *)
(*   sibling the <td> following the anchor's <td> in its row: present, text *)
(*   next_row "none" | "no_td" | "td": the <tr> following the anchor's row  *)
(*   next_text the get_text(strip=True) of the first <td> of that row       *)

ORIGIN == <<"h","t","t","p","s",":","/","/","a","r","m","y","p","u","b","s",".","a","r","m","y",".","m","i","l">>
SEPARATOR == <<" ","U+2014"," ">>
RECORD_DETAILS == <<"R","e","c","o","r","d"," ","D","e","t","a","i","l","s">>
CAC_PHRASE == <<"C","o","m","m","o","n"," ","A","c","c","e","s","s"," ","C","a","r","d"," ","(","C","A","C",")"," ","t","o"," ","v","i","e","w"," ","i","t">>
CAC_DESCRIPTION == <<"T","h","i","s"," ","p","u","b","l","i","c","a","t","i","o","n"," ","o","r"," ","f","o","r","m"," ","r","e","q","u","i","r","e","s"," ","C","o","m","m","o","n"," ","A","c","c","e","s","s"," ","C","a","r","d"," ","(","C","A","C",")"," ","t","o"," ","v","i","e","w"," ","i","t">>
SMALLER == <<"f","o","n","t","-","s","i","z","e",":","s","m","a","l","l","e","r">>

\* line 53: find_all('a', href=True)
Links(pg) == SelectSeq(pg.anchors, LAMBDA a : a.href # None)

\* line 56
IsPublicationHref(href) == Contains(href, <<"e","p","u","b","s">>) \/ Contains(href, <<"p","u","b","/","e","f","o","r","m","s">>)

\* line 61: the test that skips an anchor
IsDetailsLink(title_text) == Contains(title_text, RECORD_DETAILS)

\* the first position where sep occurs in s, 0 when it does not
FindSeq(s, sep) ==
    IF Contains(s, sep)
    THEN CHOOSE i \in 1..Len(s) :
             /\ i + Len(sep) - 1 <= Len(s)
             /\ SubSeq(s, i, i + Len(sep) - 1) = sep
             /\ \A j \in 1..(i - 1) : SubSeq(s, j, j + Len(sep) - 1) # sep
    ELSE 0

\* lines 65-67: title_text.split(' — ', 1)
DocNumber(title_text) ==
    LET k == FindSeq(title_text, SEPARATOR)
    IN  IF k = 0 THEN title_text ELSE SubSeq(title_text, 1, k - 1)
DocTitle(title_text) ==
    LET k == FindSeq(title_text, SEPARATOR)
    IN  IF k = 0 THEN <<>> ELSE SubSeq(title_text, k + Len(SEPARATOR), Len(title_text))

\* lines 70-71: re.match(r'^([A-Z]+)', doc_number)
DocType(doc_number) ==
    LET n == IF \A i \in 1..Len(doc_number) : IsUpper(doc_number[i])
             THEN Len(doc_number)
             ELSE (CHOOSE i \in 1..Len(doc_number) :
                      ~IsUpper(doc_number[i]) /\ \A j \in 1..(i - 1) : IsUpper(doc_number[j])) - 1
    IN  IF n = 0 THEN <<"U","n","k","n","o","w","n">> ELSE SubSeq(doc_number, 1, n)

\* line 75: link.find_next('span'), the first <span> after the link in the
\* document: its own, or that of a later anchor
NextSpan(pg, a) ==
    LET later == {j \in 1..Len(pg.anchors) : j >= a /\ pg.anchors[j].span.present}
    IN  IF later = {} THEN [present |-> FALSE, markup |-> <<>>, text |-> <<>>]
        ELSE pg.anchors[CHOOSE j \in later : \A k \in later : j <= k].span

\* lines 74-77
FileFormat(next_span) ==
    IF next_span.present /\ Contains(next_span.markup, SMALLER)
    THEN next_span.text
    ELSE <<"p","d","f">>

\* line 95: re.search(r'(\w{3}\s+\d{1,2},\s+\d{4})', full_text)
IsWordChar(c) == c \in Digits \/ c = "_" \/ IsUpper(c)
                 \/ \E i \in 1..Len(LowerChars) : LowerChars[i] = c
At(s, i) == IF i >= 1 /\ i <= Len(s) THEN s[i] ELSE "END"
\* the first position at or after i that holds no whitespace
SkipSpace(s, i) ==
    IF \E k \in i..Len(s) : s[k] \notin Whitespace
    THEN CHOOSE k \in i..Len(s) :
             s[k] \notin Whitespace /\ \A j \in i..(k - 1) : s[j] \in Whitespace
    ELSE Len(s) + 1
\* the last position of the match that starts at i, 0 when none does
DateMatchEnd(s, i) ==
    LET d == SkipSpace(s, i + 3)
        comma == IF At(s, d + 1) \in Digits THEN d + 2 ELSE d + 1
        y == SkipSpace(s, comma + 1)
    IN  IF /\ \A k \in i..(i + 2) : IsWordChar(At(s, k))
           /\ d > i + 3
           /\ At(s, d) \in Digits
           /\ At(s, comma) = ","
           /\ y > comma + 1
           /\ \A k \in y..(y + 3) : At(s, k) \in Digits
        THEN y + 3
        ELSE 0
DateSearch(s) ==
    IF \E i \in 1..Len(s) : DateMatchEnd(s, i) > 0
    THEN LET i == CHOOSE i \in 1..Len(s) :
                      DateMatchEnd(s, i) > 0 /\ \A j \in 1..(i - 1) : DateMatchEnd(s, j) = 0
         IN  SubSeq(s, i, DateMatchEnd(s, i))
    ELSE <<>>

\* line 113 without its startswith test: every href is prefixed
RecordUrlAlwaysPrefixed(href) == ORIGIN \o href

\* line 113
RecordUrl(href) == IF StartsWith(href, <<"h","t","t","p">>) THEN href ELSE ORIGIN \o href

\* lines 80-87: the cell whose text is read. raises: find_parent('tr') gave
\* None and .find_next_sibling was called on it (AttributeError)
NextTd(link) ==
    IF link.sibling.present THEN [raises |-> FALSE, present |-> TRUE, text |-> link.sibling.text]
    ELSE IF ~link.tr THEN [raises |-> TRUE, present |-> FALSE, text |-> <<>>]
    ELSE IF link.next_row = "td"
         THEN [raises |-> FALSE, present |-> TRUE, text |-> link.next_text]
         ELSE [raises |-> FALSE, present |-> FALSE, text |-> <<>>]

\* lines 89-104: date_text and description after the block under
\* "if description_td:", given the cell found
CellDate(next_td) == IF next_td.present THEN DateSearch(next_td.text) ELSE <<>>
CellDescription(next_td) ==
    IF next_td.present
    THEN IF Contains(next_td.text, CAC_PHRASE) THEN CAC_DESCRIPTION ELSE next_td.text
    ELSE <<>>

\* lines 47-53: find the container and the links
ParseStart ==
    /\ ppc = "start"
    /\ IF page.container
       THEN ppc' = "loop" /\ link_i' = 1
       ELSE ppc' = "done" /\ link_i' = link_i
    /\ UNCHANGED <<page, results, date_text, description, error>>
    /\ UNCHANGED procVars

\* lines 55-62: an anchor that is no publication link or is a details link
ParseSkip ==
    /\ ppc = "loop"
    /\ link_i <= Len(Links(page))
    /\ LET link == Links(page)[link_i]
       IN  ~IsPublicationHref(link.href) \/ IsDetailsLink(link.text)
    /\ link_i' = link_i + 1
    /\ UNCHANGED <<ppc, page, results, date_text, description, error>>
    /\ UNCHANGED procVars

\* lines 55-116: one pass of the loop for a publication link
ParseLink ==
    /\ ppc = "loop"
    /\ link_i <= Len(Links(page))
    /\ LET link == Links(page)[link_i]
           title_text == link.text
           doc_number == DocNumber(title_text)
           next_td == NextTd(link)
           date1 == IF link.td THEN CellDate(next_td) ELSE date_text
           desc1 == IF link.td THEN CellDescription(next_td) ELSE description
           anchor_pos == CHOOSE a \in 1..Len(page.anchors) :
                             /\ page.anchors[a].href # None
                             /\ Len(Links([page EXCEPT !.anchors = SubSeq(@, 1, a)])) = link_i
       IN  /\ IsPublicationHref(link.href) /\ ~IsDetailsLink(title_text)
           /\ IF link.td /\ next_td.raises
              THEN /\ ppc' = "raised"
                   /\ error' = <<"A","t","t","r","i","b","u","t","e","E","r","r","o","r">>
                   /\ UNCHANGED <<link_i, results, date_text, description>>
              ELSE IF date1 = Unbound \/ desc1 = Unbound
              THEN /\ ppc' = "raised"
                   /\ error' = <<"U","n","b","o","u","n","d","L","o","c","a","l","E","r","r","o","r">>
                   /\ UNCHANGED <<link_i, results, date_text, description>>
              ELSE /\ results' = Append(results,
                          [document_number |-> doc_number,
                           title |-> DocTitle(title_text),
                           document_type |-> DocType(doc_number),
                           file_format |-> FileFormat(NextSpan(page, anchor_pos)),
                           date |-> date1,
                           description |-> desc1,
                           url |-> RecordUrl(link.href)])
                   /\ date_text' = date1
                   /\ description' = desc1
                   /\ link_i' = link_i + 1
                   /\ UNCHANGED <<ppc, error>>
    /\ UNCHANGED page
    /\ UNCHANGED procVars

\* line 118
ParseReturn ==
    /\ ppc = "loop"
    /\ link_i > Len(Links(page))
    /\ ppc' = "done"
    /\ UNCHANGED <<page, link_i, results, date_text, description, error>>
    /\ UNCHANGED procVars

-----------------------------------------------------------------------------
(* Specifications *)

NoArguments ==
    /\ file_format = [p \in Procs |-> None]
    /\ url = [p \in Procs |-> None]
    /\ doc_content = [p \in Procs |-> <<>>]

NoPage == [container |-> FALSE, anchors |-> <<>>]

ParseOff ==
    /\ ppc = "off"
    /\ page = NoPage
    /\ link_i = 0
    /\ results = <<>>
    /\ date_text = Unbound
    /\ description = Unbound
    /\ error = None

Blank ==
    /\ publication_url = [p \in Procs |-> None]
    /\ exc = [p \in Procs |-> NoExc]
    /\ format_type = [p \in Procs |-> None]
    /\ temp_name = [p \in Procs |-> 0]
    /\ temp_path = [p \in Procs |-> 0]
    /\ book = [p \in Procs |-> Absent]
    /\ ret = [p \in Procs |-> None]
    /\ document_text = [p \in Procs |-> None]
    /\ result = [p \in Procs |-> None]
    /\ fs = [n \in Names |-> Absent]

\* one call of get_publication
InitPub ==
    /\ Blank
    /\ ParseOff
    /\ NoArguments
    /\ pc = [p \in Procs |-> IF p = 1 THEN "idle" ELSE "off"]

NextPub ==
    \/ \E u \in Urls : GetPublication(1, u)
    \/ \E content \in Documents : DownloadOk(1, content)
    \/ \E e \in ErrTexts : DownloadRaise(1, e)
    \/ ExtractDocumentText(1)
    \/ ExtractPdf(1)
    \/ EpubSteps(1)
    \/ DocumentReturn(1)
    \/ GetPublicationReturn(1)

SpecPub == InitPub /\ [][NextPub]_vars

\* concurrent calls of extract_epub_text
EpubDocuments == {EPUB_TWO_CHAPTERS, EPUB_NO_ITEMS, EPUB_BAD_ITEM, EPUB_CORRUPT}

InitEpub ==
    /\ Blank
    /\ ParseOff
    /\ NoArguments
    /\ pc = [p \in Procs |-> "idle"]

NextEpub ==
    \E p \in Procs :
        \/ \E content \in EpubDocuments : ExtractEpubCall(p, content)
        \/ EpubSteps(p)

SpecEpub == InitEpub /\ [][NextEpub]_vars

\* one call of extract_document_text(doc_content, file_format, url)
Hints == {None, <<>>, <<"p","d","f">>, <<"P","D","F">>, <<"E","P","U","B"," ","(","e","b","o","o","k",")">>, <<"e","b","o","o","k">>, <<"h","t","m","l">>, <<"e","p","u","b",".","p","d","f">>}

ResolveUrls == {None, <<>>,
                <<"h","t","t","p","s",":","/","/","x","/","y">>, <<"h","t","t","p","s",":","/","/","x","/","y",".","p","d","f">>, <<"h","t","t","p","s",":","/","/","x","/","y",".","P","D","F">>, <<"h","t","t","p","s",":","/","/","x","/","y",".","e","p","u","b">>,
                <<"h","t","t","p","s",":","/","/","x","/","y",".","E","p","u","b">>, <<"h","t","t","p","s",":","/","/","x","/","y",".","t","x","t">>, <<"h","t","t","p","s",":","/","/","x","/","y",".","p","d","f",".","g","z">>,
                <<"h","t","t","p","s",":","/","/","x","/","y",".","e","p","u","b",".","Z">>, <<"h","t","t","p","s",":","/","/","x","/","y",".","p","d","f","?","a","=","1">>, <<"h","t","t","p","s",":","/","/","x",".","p","d","f","/","y">>,
                <<"h","t","t","p","s",":","/","/","x","/","y",".","t","g","z">>, <<"d","a","t","a",":","a","p","p","l","i","c","a","t","i","o","n","/","p","d","f",";","b","a","s","e","6","4",",","A","A">>,
                <<"d","a","t","a",":","a","p","p","l","i","c","a","t","i","o","n","/","e","p","u","b","+","z","i","p",",","A","A">>, <<"d","a","t","a",":","t","e","x","t","/","p","l","a","i","n",",","e","p","u","b",".","p","d","f">>}

ContentHeads == {<<>>, <<37,80,68,70>>, <<37,80,68>>, <<80,75,3,4>>, <<80,75,5,6>>, <<80,75>>, <<112,107,3,4>>,
                 <<103,97,114,98>>}
ContentTails == {<<>>, <<101,112,117,98>>, <<109,105,109,101,116,121,112,101,97,112,112,108,105,99,97,116,105,111,110,47,69,80,85,66,43,122,105,112>>, <<37,80,68,70>>}
\* paddings that put a four-byte tail after a four-byte head at the start of
\* the content and around the end of the window
Paddings == {0} \cup {n \in (Window - 8 - Slack)..(Window - 8 + Slack) : n >= 0}
Zeros(n) == [i \in 1..n |-> 0]
ResolveContents == {h \o Zeros(n) \o t : h \in ContentHeads, n \in Paddings, t \in ContentTails}

InitResolve ==
    /\ Blank
    /\ ParseOff
    /\ pc = [p \in Procs |-> IF p = 1 THEN "extract_document_text" ELSE "off"]
    /\ \E h \in Hints, u \in ResolveUrls, c \in ResolveContents :
          /\ file_format = [p \in Procs |-> IF p = 1 THEN h ELSE None]
          /\ url = [p \in Procs |-> IF p = 1 THEN u ELSE None]
          /\ doc_content = [p \in Procs |-> IF p = 1 THEN c ELSE <<>>]

NextResolve == ExtractDocumentText(1)

SpecResolve == InitResolve /\ [][NextResolve]_vars

\* one call of parse_search_results(html_content)
MaxAnchors == 2

NoSpan == [present |-> FALSE, markup |-> <<>>, text |-> <<>>]
FormatSpan == [present |-> TRUE, markup |-> <<"<","s","p","a","n"," ","s","t","y","l","e","=","\"","f","o","n","t","-","s","i","z","e",":","s","m","a","l","l","e","r","\"",">","E","P","U","B","<","/","s","p","a","n",">">>,
               text |-> <<"E","P","U","B">>]
PlainSpan == [present |-> TRUE, markup |-> <<"<","s","p","a","n",">","n","e","w","<","/","s","p","a","n",">">>, text |-> <<"n","e","w">>]
NoCell == [present |-> FALSE, text |-> <<>>]
Cell(t) == [present |-> TRUE, text |-> t]

DATED == <<"M","a","y"," ","1","3",","," ","2","0","1","9","F","i","e","l","d"," ","m","a","n","u","a","l">>
RESTRICTED == <<"F","e","b"," ","1",","," ","2","0","2","5"," ","Y","o","u"," ","n","e","e","d"," ","a"," ","C","o","m","m","o","n"," ","A","c","c","e","s","s"," ","C","a","r","d"," ","(","C","A","C",")"," ","t","o"," ","v","i","e","w"," ","i","t",".">>
UNDATED == <<"S","u","p","e","r","s","e","d","e","d">>

Anchor(h, t, s, td, tr, sib, nr, nt) ==
    [href |-> h, text |-> t, span |-> s, td |-> td, tr |-> tr, sibling |-> sib,
     next_row |-> nr, next_text |-> nt]
\* an anchor in a cell of a row whose next cell holds the text c
InRow(h, t, s, c) == Anchor(h, t, s, TRUE, TRUE, Cell(c), "none", <<>>)

AnchorKinds ==
    { InRow(<<"/","e","p","u","b","s","/","a",".","p","d","f">>, <<"A","T","P"," ","3","-","2","1",".","8"," ","U+2014"," ","I","n","f","a","n","t","r","y"," ","P","l","a","t","o","o","n">>, FormatSpan, DATED),
      InRow(<<"h","t","t","p","s",":","/","/","a","r","m","y","p","u","b","s",".","a","r","m","y",".","m","i","l","/","e","p","u","b","s","/","b",".","p","d","f">>, <<"A","R"," ","2","5","-","5","0">>, NoSpan, RESTRICTED),
      InRow(<<"/","p","u","b","/","e","f","o","r","m","s","/","c",".","p","d","f">>, <<"1","2","3">>, PlainSpan, UNDATED),
      InRow(<<"/","P","r","o","d","u","c","t","M","a","p","s","/","D","e","t","a","i","l","s",".","a","s","p","x","?","i","d","=","1">>, <<"R","e","c","o","r","d"," ","D","e","t","a","i","l","s">>, NoSpan, DATED),
      InRow(<<"/","e","p","u","b","s","/","a",".","p","d","f">>, <<"R","e","c","o","r","d"," ","D","e","t","a","i","l","s">>, NoSpan, DATED),
      InRow(<<"/","e","p","u","b","s","/","d",".","p","d","f">>, <<"A","R"," ","2","5"," ","U+2014"," ","R","e","c","o","r","d"," ","D","e","t","a","i","l","s"," ","G","u","i","d","e">>, NoSpan, DATED),
      InRow(<<"/","E","P","U","B","S","/","e",".","p","d","f">>, <<"T","C"," ","1">>, NoSpan, DATED),
      InRow(None, <<"T","C"," ","2">>, NoSpan, DATED),
      InRow(<<"f","t","p",":","/","/","h","o","s","t","/","e","p","u","b","s","/","f",".","p","d","f">>, <<"T","C"," ","3">>, NoSpan, DATED),
      InRow(<<"h","t","t","p","d","o","c","s","/","e","p","u","b","s","/","g",".","p","d","f">>, <<"T","C"," ","4">>, NoSpan, DATED),
      Anchor(<<"/","e","p","u","b","s","/","h",".","p","d","f">>, <<"F","M"," ","1">>, NoSpan, FALSE, FALSE, NoCell, "none", <<>>),
      Anchor(<<"/","e","p","u","b","s","/","i",".","p","d","f">>, <<"F","M"," ","2">>, NoSpan, TRUE, FALSE, NoCell, "none", <<>>),
      Anchor(<<"/","e","p","u","b","s","/","j",".","p","d","f">>, <<"F","M"," ","3">>, NoSpan, TRUE, FALSE, Cell(DATED), "none", <<>>),
      Anchor(<<"/","e","p","u","b","s","/","k",".","p","d","f">>, <<"F","M"," ","4">>, NoSpan, TRUE, TRUE, NoCell, "none", <<>>),
      Anchor(<<"/","e","p","u","b","s","/","l",".","p","d","f">>, <<"F","M"," ","5">>, NoSpan, TRUE, TRUE, NoCell, "no_td", <<>>),
      Anchor(<<"/","e","p","u","b","s","/","m",".","p","d","f">>, <<"F","M"," ","6">>, NoSpan, TRUE, TRUE, NoCell, "td", DATED) }

RECURSIVE SeqsUpTo(_, _)
SeqsUpTo(S, n) ==
    IF n = 0 THEN {<<>>}
    ELSE LET shorter == SeqsUpTo(S, n - 1)
         IN  shorter \cup {Append(q, x) : q \in shorter, x \in S}

Pages == {[container |-> c, anchors |-> a] : c \in BOOLEAN, a \in SeqsUpTo(AnchorKinds, MaxAnchors)}

InitParse ==
    /\ Blank
    /\ NoArguments
    /\ pc = [p \in Procs |-> "off"]
    /\ ppc = "start"
    /\ page \in Pages
    /\ link_i = 0
    /\ results = <<>>
    /\ date_text = Unbound
    /\ description = Unbound
    /\ error = None

NextParse == ParseStart \/ ParseSkip \/ ParseLink \/ ParseReturn

SpecParse == InitParse /\ [][NextParse]_vars

-----------------------------------------------------------------------------
(* Properties of get_publication (SpecPub) *)

RedirectHeads == {<<"R","e","d","i","r","e","c","t"," ","r","e","s","p","o","n","s","e"," ","'","3","0","2"," ","F","o","u","n","d","'"," ">>, <<"R","E","D","I","R","E","C","T"," ">>}
FederationTails == {<<"h","t","t","p","s",":","/","/","f","e","d","e","r","a","t","i","o","n",".","e","a","m","s",".","a","r","m","y",".","m","i","l","/","s","s","o">>, <<"H","T","T","P","S",":","/","/","F","E","D","E","R","A","T","I","O","N",".","E","A","M","S",".","A","R","M","Y",".","M","I","L","/">>}
\* the download raised, and the failure's text mentions a redirect toward the
\* credential-federation host
FederationRedirect(p) ==
    /\ exc[p] # NoExc
    /\ \E h \in RedirectHeads, t \in FederationTails : exc[p] = h \o t

ACCESS_RESTRICTED_PREFIX == <<"A","C","C","E","S","S","_","R","E","S","T","R","I","C","T","E","D",":">>
CAC_REQUIRED_PREFIX == <<"C","A","C","_","R","E","Q","U","I","R","E","D",":">>

\* C1 as stated: a call whose download fails with a redirect toward the
\* federation host returns a string that starts with "ACCESS_RESTRICTED:" and
\* is not the generic failure message
C1_AccessRestrictedPrefix ==
    \A p \in Procs :
        (pc[p] = "done" /\ FederationRedirect(p)) =>
            /\ StartsWith(result[p], ACCESS_RESTRICTED_PREFIX)
            /\ result[p] # FAILED_MESSAGE

\* C1 amended: a call whose download fails with a redirect toward the
\* federation host returns a string that starts with "CAC_REQUIRED:" and is
\* not the generic failure message
C1_CacRequiredPrefix ==
    \A p \in Procs :
        (pc[p] = "done" /\ FederationRedirect(p)) =>
            /\ StartsWith(result[p], CAC_REQUIRED_PREFIX)
            /\ result[p] # FAILED_MESSAGE

C1_Witness ==
    \E p \in Procs :
        /\ pc[p] = "done"
        /\ FederationRedirect(p)
        /\ exc[p] = <<"R","E","D","I","R","E","C","T"," ">> \o <<"H","T","T","P","S",":","/","/","F","E","D","E","R","A","T","I","O","N",".","E","A","M","S",".","A","R","M","Y",".","M","I","L","/">>
        /\ result[p] = CAC_REQUIRED

\* the decoder of the detected format fails on the downloaded bytes
DecodeFails(p) ==
    \/ format_type[p] = <<"p","d","f">> /\ ~PdfReader(doc_content[p]).ok
    \/ /\ format_type[p] = <<"e","p","u","b">>
       /\ \/ ~ReadEpub(doc_content[p]).ok
          \/ ItemsRaise(ReadEpub(doc_content[p]).items)

\* the position of a call, counted in steps from its start
Rank(p) ==
    CASE pc[p] \in {"off", "idle"} -> 0
      [] pc[p] = "download" -> 1
      [] pc[p] = "extract_document_text" -> 2
      [] pc[p] \in {"pdf", "epub"} -> 3
      [] pc[p] = "write" -> 4
      [] pc[p] = "read" -> 5
      [] pc[p] = "unlink" -> 6
      [] pc[p] = "extract_ret" -> 7
      [] pc[p] = "doc_ret" -> 8
      [] OTHER -> 9

\* C5: every call of get_publication ends (a call under way can always take
\* a step, and its steps are bounded), and it ends with one of three strings:
\* the extracted text, the access-restricted sentinel or the fixed failure
\* message; a transport failure without a credential redirect, an unknown
\* format and a decode failure all give the fixed failure message
C5_ThreeOutcomes ==
    \A p \in Procs :
        /\ pc[p] \notin {"off", "idle", "done"} =>
               ENABLED (NextPub /\ Rank(p)' > Rank(p))
        /\ pc[p] = "done" =>
               /\ result[p] # None
               /\ \/ result[p] = FAILED_MESSAGE
                  \/ result[p] = CAC_REQUIRED
                  \/ exc[p] = NoExc /\ ret[p] # None /\ result[p] = ret[p]
               /\ (exc[p] # NoExc /\ ~FederationRedirect(p)) => result[p] = FAILED_MESSAGE
               /\ (exc[p] = NoExc /\ format_type[p] = None) => result[p] = FAILED_MESSAGE
               /\ (exc[p] = NoExc /\ DecodeFails(p)) => result[p] = FAILED_MESSAGE

C5_Witness ==
    \E p \in Procs :
        /\ pc[p] = "done"
        /\ exc[p] = NoExc
        /\ doc_content[p] = PDF_CORRUPT
        /\ format_type[p] = <<"p","d","f">>
        /\ DecodeFails(p)
        /\ result[p] = FAILED_MESSAGE

\* the last path segment of u has no extension
NoExtension(u) == ~Contains(SubSeq(u, RFind(u, "/") + 1, Len(u)), <<".">>)
NamesFormat(hint) ==
    Contains(Lower(hint), <<"p","d","f">>) \/ Contains(Lower(hint), <<"e","p","u","b">>)
        \/ Contains(Lower(hint), <<"e","b","o","o","k">>)
Dispatched(p) ==
    pc[p] \notin {"off", "idle", "download", "extract_document_text"} /\ exc[p] = NoExc

\* C8: for a URL whose last path segment has no extension, the hint names no
\* format (no "pdf"/"epub"/"ebook" from the host or an earlier segment), and
\* downloaded bytes that start with %PDF go to the PDF extractor
C8_HintFromExtensionOnly ==
    \A p \in Procs :
        (pc[p] \notin {"off", "idle"} /\ NoExtension(publication_url[p])) =>
            /\ file_format[p] = None \/ ~NamesFormat(file_format[p])
            /\ (Dispatched(p) /\ StartsWith(doc_content[p], PDF_MAGIC))
                   => format_type[p] = <<"p","d","f">>

\* C10: when the download succeeds, the format is PDF or EPUB and the
\* extractor succeeds, get_publication returns the extractor's text, the
\* empty string of a document without text included
C10_EmptyTextIsReturned ==
    \A p \in Procs :
        (/\ pc[p] = "done"
         /\ exc[p] = NoExc
         /\ format_type[p] \in {<<"p","d","f">>, <<"e","p","u","b">>}
         /\ ret[p] # None) => result[p] = ret[p]

-----------------------------------------------------------------------------
(* Properties of extract_epub_text (SpecEpub) *)

\* C6: when a call of extract_epub_text returns, the temporary file it
\* created is no longer on disk
C6_TempFileDeleted ==
    [][\A p \in Procs :
          (pc[p] # "extract_ret" /\ pc'[p] = "extract_ret" /\ temp_name'[p] # 0)
              => fs'[temp_name'[p]] = Absent]_vars

\* the invocation holds a temporary file it has yet to delete
InFlight(p) == pc[p] \in {"write", "read", "unlink"}

\* C7: concurrent extractions use distinct temporary paths, each reads the
\* bytes it wrote, each finds its own file untouched until it deletes it, and
\* each returns what it returns when run alone on its bytes
C7_Isolation ==
    /\ \A p, q \in Procs :
          (p # q /\ InFlight(p) /\ InFlight(q)) => temp_name[p] # temp_name[q]
    /\ \A p \in Procs :
          /\ pc[p] = "write" => fs[temp_name[p]] = <<>>
          /\ pc[p] = "read" => fs[temp_path[p]] = doc_content[p]
          /\ pc[p] = "unlink" => (book[p] = doc_content[p] /\ fs[temp_path[p]] = doc_content[p])
          /\ pc[p] = "extract_ret" =>
                ret[p] = IF temp_path[p] = 0 THEN None ELSE EpubText(doc_content[p])

C7_Witness ==
    \E p, q \in Procs :
        /\ p # q
        /\ pc[p] = "unlink" /\ book[p] = EPUB_TWO_CHAPTERS
        /\ pc[q] = "read" /\ doc_content[q] = EPUB_NO_ITEMS
        /\ temp_path[p] # temp_path[q]

-----------------------------------------------------------------------------
(* Properties of extract_document_text (SpecResolve) *)

ZIP_LOCAL_HEADER == <<80,75,3,4>>

HintNames(hint, words) ==
    hint # None /\ \E w \in words : Contains(Lower(hint), w)
UrlEnds(u, suffix) == u # None /\ EndsWith(Lower(u), suffix)
\* the MIME type of the extension of u's last path component
ExtensionMime(u) ==
    IF u = None THEN None
    ELSE LET ext == Lower(SplitExt(u).ext)
         IN  IF ext \in TypesMapKeys THEN TypesMap(ext) ELSE None
\* the MIME type mimetypes.guess_type gives
GuessedMime(u) == IF u = None \/ u = <<>> THEN None ELSE GuessType(u)
SniffsEpub(content, magic) ==
    /\ StartsWith(content, magic)
    /\ \E i \in 0..(Min(Len(content), Window) - 4) :
          LowerBytes(SubSeq(content, i + 1, i + 4)) = <<101,112,117,98>>

\* the reference resolver of C2 as stated
ReferenceFormat(hint, u, content) ==
    IF HintNames(hint, {<<"p","d","f">>}) THEN <<"p","d","f">>
    ELSE IF HintNames(hint, {<<"e","p","u","b">>, <<"e","b","o","o","k">>}) THEN <<"e","p","u","b">>
    ELSE IF UrlEnds(u, <<".","p","d","f">>) THEN <<"p","d","f">>
    ELSE IF UrlEnds(u, <<".","e","p","u","b">>) THEN <<"e","p","u","b">>
    ELSE IF ExtensionMime(u) = <<"a","p","p","l","i","c","a","t","i","o","n","/","p","d","f">> THEN <<"p","d","f">>
    ELSE IF ExtensionMime(u) = <<"a","p","p","l","i","c","a","t","i","o","n","/","e","p","u","b","+","z","i","p">> THEN <<"e","p","u","b">>
    ELSE IF StartsWith(content, PDF_MAGIC) THEN <<"p","d","f">>
    ELSE IF SniffsEpub(content, ZIP_LOCAL_HEADER) THEN <<"e","p","u","b">>
    ELSE None

\* the reference resolver of C2 as amended
AmendedFormat(hint, u, content) ==
    IF HintNames(hint, {<<"p","d","f">>}) THEN <<"p","d","f">>
    ELSE IF HintNames(hint, {<<"e","p","u","b">>, <<"e","b","o","o","k">>}) THEN <<"e","p","u","b">>
    ELSE IF UrlEnds(u, <<".","p","d","f">>) THEN <<"p","d","f">>
    ELSE IF UrlEnds(u, <<".","e","p","u","b">>) THEN <<"e","p","u","b">>
    ELSE IF GuessedMime(u) = <<"a","p","p","l","i","c","a","t","i","o","n","/","p","d","f">> THEN <<"p","d","f">>
    ELSE IF GuessedMime(u) = <<"a","p","p","l","i","c","a","t","i","o","n","/","e","p","u","b","+","z","i","p">> THEN <<"e","p","u","b">>
    ELSE IF StartsWith(content, PDF_MAGIC) THEN <<"p","d","f">>
    ELSE IF SniffsEpub(content, <<80,75>>) THEN <<"e","p","u","b">>
    ELSE None

Resolved(p) == pc[p] \in {"pdf", "epub", "extract_ret"}
DispatchedTo(p, f) ==
    /\ format_type[p] = f
    /\ f = <<"p","d","f">> => pc[p] = "pdf"
    /\ f = <<"e","p","u","b">> => pc[p] = "epub"
    /\ f = None => (pc[p] = "extract_ret" /\ ret[p] = None)

\* C2 as stated: the format extract_document_text chooses is that of the
\* reference resolver: hint, then URL suffix or the MIME type of its
\* extension, then %PDF or the ZIP local-file-header magic PK\x03\x04 with
\* "epub" in the first 1024 bytes, else unknown
C2_ReferenceResolver ==
    \A p \in Procs :
        Resolved(p) =>
            DispatchedTo(p, ReferenceFormat(file_format[p], url[p], doc_content[p]))

\* C2 amended: the format extract_document_text chooses is that of the
\* reference resolver: hint, then URL suffix or the MIME type
\* mimetypes.guess_type gives for the URL, then %PDF or the two bytes PK with
\* "epub" in the first 1024 bytes, else unknown
C2_AmendedResolver ==
    \A p \in Procs :
        Resolved(p) =>
            DispatchedTo(p, AmendedFormat(file_format[p], url[p], doc_content[p]))

C2_Witness ==
    \E p \in Procs :
        /\ pc[p] = "epub"
        /\ file_format[p] = None
        /\ url[p] = <<"h","t","t","p","s",":","/","/","x","/","y">>
        /\ StartsWith(doc_content[p], <<80,75,5,6>>)
        /\ Len(doc_content[p]) = Window

-----------------------------------------------------------------------------
(* Properties of parse_search_results (SpecParse) *)

\* the links the loop has passed
PassedLinks == SubSeq(Links(page), 1, Min(link_i - 1, Len(Links(page))))
\* of these, the ones the code keeps
KeptLinks ==
    SelectSeq(PassedLinks,
              LAMBDA a : IsPublicationHref(a.href) /\ ~Contains(a.text, RECORD_DETAILS))
\* the publication anchors of C3: a publication href, and a text that is not
\* the details-link label
PublicationAnchors ==
    SelectSeq(Links(page),
              LAMBDA a : (Contains(a.href, <<"e","p","u","b","s">>) \/ Contains(a.href, <<"p","u","b","/","e","f","o","r","m","s">>))
                         /\ a.text # RECORD_DETAILS)

\* C3: for a page whose container holds N publication anchors,
\* parse_search_results returns N records, the i-th from the i-th anchor
C3_OneRecordPerAnchor ==
    (ppc \in {"done", "raised"} /\ page.container) =>
        /\ ppc = "done"
        /\ Len(results) = Len(PublicationAnchors)
        /\ \A k \in 1..Len(results) :
              /\ k <= Len(PublicationAnchors)
              /\ results[k].document_number = DocNumber(PublicationAnchors[k].text)
              /\ results[k].url = RecordUrl(PublicationAnchors[k].href)

\* the anchor has no enclosing cell, or no following cell to read
LacksCell(a) ==
    \/ ~a.td
    \/ ~a.sibling.present /\ (~a.tr \/ a.next_row # "td")

\* C4: parse_search_results never raises, returns no record when the
\* container is absent, and gives a kept anchor without an enclosing cell,
\* row or following cell the date "" and the description ""
C4_NeverRaises ==
    /\ ppc # "raised"
    /\ (ppc = "done" /\ ~page.container) => results = <<>>
    /\ \A k \in 1..Len(results) :
          (k <= Len(KeptLinks) /\ LacksCell(KeptLinks[k])) =>
              (results[k].date = <<>> /\ results[k].description = <<>>)

\* RFC 3986: scheme = ALPHA *( ALPHA / DIGIT / "+" / "-" / "." ) before ":"
IsAlpha(c) == IsUpper(c) \/ \E i \in 1..Len(LowerChars) : LowerChars[i] = c
HasScheme(href) ==
    LET colon == Find(href, ":")
    IN  /\ colon > 1
        /\ IsAlpha(href[1])
        /\ \A i \in 2..(colon - 1) : IsAlpha(href[i]) \/ href[i] \in Digits \cup {"+", "-", "."}

\* C9 as stated: a record's url is the href unmodified exactly when the href
\* starts with a URL scheme, and otherwise the catalog origin followed by the
\* href
C9_SchemeDecidesUrl ==
    /\ Len(results) = Len(KeptLinks)
    /\ \A k \in 1..Len(results) :
          LET href == KeptLinks[k].href
          IN  /\ results[k].url = href <=> HasScheme(href)
              /\ ~HasScheme(href) => results[k].url = ORIGIN \o href

\* C9 amended: a record's url starts with "http": it is the href unmodified
\* exactly when the href starts with the text "http", and otherwise the
\* catalog origin followed by the href
C9_HttpPrefixDecidesUrl ==
    /\ Len(results) = Len(KeptLinks)
    /\ \A k \in 1..Len(results) :
          LET href == KeptLinks[k].href
          IN  /\ StartsWith(results[k].url, <<"h","t","t","p">>)
              /\ results[k].url = href <=> StartsWith(href, <<"h","t","t","p">>)
              /\ ~StartsWith(href, <<"h","t","t","p">>) => results[k].url = ORIGIN \o href

C9_Witness ==
    /\ ppc = "done"
    /\ Len(results) = 2
    /\ results[1].url = <<"h","t","t","p","s",":","/","/","a","r","m","y","p","u","b","s",".","a","r","m","y",".","m","i","l","/","e","p","u","b","s","/","a",".","p","d","f">>
    /\ KeptLinks[1].href = <<"/","e","p","u","b","s","/","a",".","p","d","f">>
    /\ results[2].url = <<"h","t","t","p","s",":","/","/","a","r","m","y","p","u","b","s",".","a","r","m","y",".","m","i","l","/","e","p","u","b","s","/","b",".","p","d","f">>
    /\ KeptLinks[2].href = results[2].url

====
